---- MODULE Spec2Model ----
(***************************************************************************)
(* Hierarchical budget allocation of the session page                     *)
(* (src/app/dashboard/[categoryId]/[sessionId]/page.tsx, second component) *)
(* and the routes it calls: PUT /api/sessions/[id]/allocations,            *)
(* POST /api/sessions/[id]/import and PUT /api/sessions/[id].              *)
(*                                                                         *)
(* Conventions of the model                                                *)
(*  - a hierarchy path "A/X/S1" is the sequence <<"A","X","S1">> of its    *)
(*    segments; join('/') and split('/') are the two directions of that    *)
(*    representation (attribute values and SKU codes contain no '/').      *)
(*  - a percentage is an exact rational [n |-> num, d |-> den] in lowest   *)
(*    terms (d > 0); JavaScript computes the same expressions in binary    *)
(*    floating point.                                                      *)
(*  - Allocation.amount is a decimal string in the code (toString /        *)
(*    parseInt of a non-negative integer); the model keeps the integer.    *)
(*  - a CSV cell is <<>> when blank and <<v>> when it holds the value v.   *)
(***************************************************************************)
EXTENDS Integers, Sequences, FiniteSets, TLC

VARIABLES session, skuData, allocations, hierarchyTree,
          pending, last, prevAllocations, nOps, rounds, applied,
          db, http, nRequests, handlers

\* the state of the page
pageVars == <<session, skuData, allocations, hierarchyTree,
              pending, last, prevAllocations, nOps, rounds, applied>>

\* the tables of the session on the server, the last request with the
\* tables as they were before it, the number of requests made, and the
\* handler each client has running on the server
serverVars == <<db, http, nRequests, handlers>>

vars == <<session, skuData, allocations, hierarchyTree,
          pending, last, prevAllocations, nOps, rounds, applied,
          db, http, nRequests, handlers>>

(***************************************************************************)
(* Bounds                                                                  *)
(***************************************************************************)
MaxOps == 2
\* largest number of SKU rows in the sessions of SpecTree
MaxSkus == 3
\* largest number of requests the page or a client sends to the server
MaxRequests == 3

(***************************************************************************)
(* Exact rational arithmetic for percentages                               *)
(***************************************************************************)
RECURSIVE GCD(_, _)
GCD(a, b) == IF b = 0 THEN a ELSE GCD(b, a % b)

Abs(x) == IF x < 0 THEN 0 - x ELSE x

Rat(num, den) ==
  LET g == GCD(Abs(num), Abs(den))
      s == IF den < 0 THEN 0 - 1 ELSE 1
  IN  [n |-> s * (num \div g), d |-> s * (den \div g)]

RInt(k) == [n |-> k, d |-> 1]
RAdd(x, y) == Rat(x.n * y.d + y.n * x.d, x.d * y.d)
RSub(x, y) == Rat(x.n * y.d - y.n * x.d, x.d * y.d)
\* cross-reduced before multiplying, to keep the intermediate values small
RMul(x, y) ==
  LET g1 == GCD(Abs(x.n), y.d)
      g2 == GCD(Abs(y.n), x.d)
  IN  Rat((x.n \div g1) * (y.n \div g2), (x.d \div g2) * (y.d \div g1))
RDivInt(x, k) == Rat(x.n, x.d * k)
RFloor(x) == x.n \div x.d
RGtZero(x) == x.n > 0
RIsZero(x) == x.n = 0

RECURSIVE RSum(_)
RSum(s) == IF s = <<>> THEN RInt(0) ELSE RAdd(Head(s), RSum(Tail(s)))

(***************************************************************************)
(* Sequence helpers (Array.prototype.find / findIndex / filter / slice)    *)
(***************************************************************************)
RECURSIVE SelectSeqIdx(_, _, _)
\* first index i >= from with s[i].hierarchyPath = path, 0 when none
SelectSeqIdx(s, path, from) ==
  IF from > Len(s) THEN 0
  ELSE IF s[from].hierarchyPath = path THEN from
  ELSE SelectSeqIdx(s, path, from + 1)

findIndex(allocs, path) == SelectSeqIdx(allocs, path, 1)
HasAlloc(allocs, path) == findIndex(allocs, path) > 0
find(allocs, path) == allocs[findIndex(allocs, path)]

Front(p) == SubSeq(p, 1, Len(p) - 1)
Last(p) == p[Len(p)]

(***************************************************************************)
(* buildHierarchyPath                                                      *)
(***************************************************************************)
RECURSIVE buildPathFrom(_, _, _, _)
buildPathFrom(sku, defs, level, i) ==
  IF i > level \/ i > Len(defs) THEN <<>>
  ELSE LET value == sku.hierarchyValues[defs[i].columnName]
       IN  (IF value # "" THEN <<value>> ELSE <<>>)
             \o buildPathFrom(sku, defs, level, i + 1)

buildHierarchyPath(sku, defs, level) == buildPathFrom(sku, defs, level, 1)

\* parentPath ? `${parentPath}/${sku.skuCode}` : sku.skuCode
SkuPath(sku, defs) == buildHierarchyPath(sku, defs, Len(defs)) \o <<sku.skuCode>>

(***************************************************************************)
(* getParentAmount                                                         *)
(***************************************************************************)
\* variant: a missing parent record gives the total budget at once, the
\* remaining ancestors are not visited
getParentAmount_NoWalk(path, allocs, sess) ==
  IF Len(path) <= 1 THEN sess.totalBudget
  ELSE IF HasAlloc(allocs, Front(path))
  THEN find(allocs, Front(path)).amount
  ELSE sess.totalBudget

RECURSIVE getParentAmount(_, _, _)
getParentAmount(path, allocs, sess) ==
  IF Len(path) <= 1 THEN sess.totalBudget
  ELSE LET parentPath == Front(path)
       IN  IF HasAlloc(allocs, parentPath)
           THEN find(allocs, parentPath).amount
           ELSE getParentAmount(parentPath, allocs, sess)

RECURSIVE getParentAmountCalls(_, _)
\* number of activations of getParentAmount the call for path makes, itself
\* included
getParentAmountCalls(path, allocs) ==
  IF Len(path) <= 1 THEN 1
  ELSE IF HasAlloc(allocs, Front(path)) THEN 1
  ELSE 1 + getParentAmountCalls(Front(path), allocs)

\* variant: the percentage is used as a factor, not divided by 100
AmountOf_PercentageAsFactor(parentAmount, percentage) ==
  RFloor(RMul(RInt(parentAmount), percentage))

\* Math.floor(parentAmount * (percentage / 100))
AmountOf(parentAmount, percentage) ==
  RFloor(RMul(RInt(parentAmount), RDivInt(percentage, 100)))

(***************************************************************************)
(* related SKUs and quantity                                               *)
(***************************************************************************)
IsRelated(sku, path, level, pathLevel, sess) ==
  IF level = Len(sess.hierarchyDefinitions) + 1
  THEN sku.skuCode = Last(path)
  ELSE buildHierarchyPath(sku, sess.hierarchyDefinitions, pathLevel) = path

RECURSIVE TotalUnitPrice(_, _, _, _, _)
TotalUnitPrice(skus, path, level, pathLevel, sess) ==
  IF skus = <<>> THEN 0
  ELSE (IF IsRelated(Head(skus), path, level, pathLevel, sess)
        THEN Head(skus).unitPrice ELSE 0)
       + TotalUnitPrice(Tail(skus), path, level, pathLevel, sess)

\* totalUnitPrice > 0 ? Math.floor(amount / totalUnitPrice) : 0
QuantityOf(amount, path, level, pathLevel, skus, sess) ==
  LET totalUnitPrice == TotalUnitPrice(skus, path, level, pathLevel, sess)
  IN  IF totalUnitPrice > 0 THEN amount \div totalUnitPrice ELSE 0

(***************************************************************************)
(* recalculateDescendants: one forEach over the list, in list order,       *)
(* reading parents from and writing into the same array                    *)
(***************************************************************************)
RecalcOne(result, index, skus, sess) ==
  LET allocation == result[index]
      parentAmount == getParentAmount(allocation.hierarchyPath, result, sess)
      newAmount == AmountOf(parentAmount, allocation.percentage)
  IN  IF newAmount # allocation.amount
      THEN [result EXCEPT ![index] =
              [allocation EXCEPT
                 !.amount = newAmount,
                 !.quantity = QuantityOf(newAmount, allocation.hierarchyPath,
                                         allocation.level, allocation.level,
                                         skus, sess)]]
      ELSE result

RECURSIVE RecalcFrom(_, _, _, _)
RecalcFrom(result, index, skus, sess) ==
  IF index > Len(result) THEN result
  ELSE RecalcFrom(RecalcOne(result, index, skus, sess), index + 1, skus, sess)

recalculateDescendants(updatedAllocations, skus, sess) ==
  RecalcFrom(updatedAllocations, 1, skus, sess)

(***************************************************************************)
(* upsert shared by updateAllocation, equalDistribution and auto-fill      *)
(***************************************************************************)
\* variant: the existing record is not looked up, the edit is always appended
Upsert_AlwaysAppend(allocs, path, percentage, amount, quantity) ==
  Append(allocs, [hierarchyPath |-> path,
                  level |-> Len(path),
                  percentage |-> percentage,
                  amount |-> amount,
                  quantity |-> quantity])

Upsert(allocs, path, percentage, amount, quantity) ==
  LET existingIndex == findIndex(allocs, path)
  IN  IF existingIndex > 0
      THEN [allocs EXCEPT ![existingIndex] =
              [@ EXCEPT !.percentage = percentage,
                        !.amount = amount,
                        !.quantity = quantity]]
      ELSE Append(allocs, [hierarchyPath |-> path,
                           level |-> Len(path),
                           percentage |-> percentage,
                           amount |-> amount,
                           quantity |-> quantity])

(***************************************************************************)
(* buildHierarchyTree.  The tree is kept as the list of root paths plus    *)
(* the node map in insertion order; a node's children are held by path.    *)
(***************************************************************************)
RECURSIVE NodeIdxFrom(_, _, _)
NodeIdxFrom(nodes, path, from) ==
  IF from > Len(nodes) THEN 0
  ELSE IF nodes[from].path = path THEN from
  ELSE NodeIdxFrom(nodes, path, from + 1)

NodeIdx(nodes, path) == NodeIdxFrom(nodes, path, 1)
HasNode(nodes, path) == NodeIdx(nodes, path) > 0
NodeAt(nodes, path) == nodes[NodeIdx(nodes, path)]

\* percentage: allocation?.percentage || 0, amount, quantity likewise
NewNode(path, name, level, unitPrice, allocs) ==
  LET has == HasAlloc(allocs, path)
  IN  [path |-> path, name |-> name, level |-> level,
       percentage |-> IF has THEN find(allocs, path).percentage ELSE RInt(0),
       amount |-> IF has THEN find(allocs, path).amount ELSE 0,
       quantity |-> IF has THEN find(allocs, path).quantity ELSE 0,
       unitPrice |-> unitPrice,
       children |-> <<>>]

\* parent.children.push(node) when the parent is in the node map
AttachChild(nodes, parentPath, childPath) ==
  IF HasNode(nodes, parentPath)
  THEN [nodes EXCEPT ![NodeIdx(nodes, parentPath)].children = Append(@, childPath)]
  ELSE nodes

AddLevelNode(t, sku, level, allocs, sess) ==
  LET path == buildHierarchyPath(sku, sess.hierarchyDefinitions, level)
  IN  IF path = <<>> \/ HasNode(t.nodes, path) THEN t
      ELSE LET added == Append(t.nodes, NewNode(path, Last(path), level, <<>>, allocs))
           IN  IF level = 1
               THEN [roots |-> Append(t.roots, path), nodes |-> added]
               ELSE [roots |-> t.roots,
                     nodes |-> AttachChild(added, Front(path), path)]

RECURSIVE AddLevelNodes(_, _, _, _, _)
AddLevelNodes(t, sku, level, allocs, sess) ==
  IF level > Len(sess.hierarchyDefinitions) THEN t
  ELSE AddLevelNodes(AddLevelNode(t, sku, level, allocs, sess),
                     sku, level + 1, allocs, sess)

AddSkuNode(t, sku, allocs, sess) ==
  LET defs == sess.hierarchyDefinitions
      parentPath == buildHierarchyPath(sku, defs, Len(defs))
      skuPath == SkuPath(sku, defs)
      skuLevel == Len(defs) + 1
  IN  IF HasNode(t.nodes, skuPath) THEN t
      ELSE [roots |-> t.roots,
            nodes |-> AttachChild(
                        Append(t.nodes, NewNode(skuPath, sku.skuCode, skuLevel,
                                                <<sku.unitPrice>>, allocs)),
                        parentPath, skuPath)]

RECURSIVE BuildFrom(_, _, _, _)
BuildFrom(t, skus, allocs, sess) ==
  IF skus = <<>> THEN t
  ELSE BuildFrom(AddSkuNode(AddLevelNodes(t, Head(skus), 1, allocs, sess),
                            Head(skus), allocs, sess),
                 Tail(skus), allocs, sess)

EmptyTree == [roots |-> <<>>, nodes |-> <<>>]

buildHierarchyTree(skus, allocs, sess) ==
  IF skus = <<>> THEN EmptyTree ELSE BuildFrom(EmptyTree, skus, allocs, sess)

(***************************************************************************)
(* tree queries: getNodesByLevel, getParentPath, getChildrenByParent       *)
(***************************************************************************)
RECURSIVE Traverse(_, _, _)
\* pre-order walk below the listed paths, collecting the paths of the
\* nodes whose level field equals level
Traverse(t, nodeList, level) ==
  IF nodeList = <<>> THEN <<>>
  ELSE LET node == NodeAt(t.nodes, Head(nodeList))
       IN  (IF node.level = level THEN <<node.path>> ELSE <<>>)
             \o Traverse(t, node.children, level)
             \o Traverse(t, Tail(nodeList), level)

getNodesByLevel(t, level) == Traverse(t, t.roots, level)

HasParentPath(path) == Len(path) > 1
getParentPath(path) == Front(path)

InGroup(path, parentPath, level) ==
  Len(path) = level /\ Front(path) = parentPath

getChildrenByParent(t, parentPath, level) ==
  SelectSeq(getNodesByLevel(t, level), LAMBDA p : InGroup(p, parentPath, level))

RECURSIVE Dedup(_, _)
\* insertion-ordered Set of the parent paths of the listed nodes
Dedup(paths, seen) ==
  IF paths = <<>> THEN seen
  ELSE LET p == Head(paths)
           isNew == HasParentPath(p) /\ \A i \in 1..Len(seen) : seen[i] # Front(p)
       IN  Dedup(Tail(paths), IF isNew THEN Append(seen, Front(p)) ELSE seen)

ParentPathsAt(t, level) == Dedup(getNodesByLevel(t, level), <<>>)

(***************************************************************************)
(* updateAllocation                                                        *)
(***************************************************************************)
updateAllocation(path, percentage, allocs, skus, sess) ==
  LET parentAmount == getParentAmount(path, allocs, sess)
      amount == AmountOf(parentAmount, percentage)
      pathLevel == Len(path)
      quantity == QuantityOf(amount, path, pathLevel, pathLevel, skus, sess)
      updated == Upsert(allocs, path, percentage, amount, quantity)
  IN  recalculateDescendants(updated, skus, sess)

(***************************************************************************)
(* equalDistribution                                                       *)
(***************************************************************************)
RECURSIVE findChildren(_, _, _, _)
\* depth-first search for the node at parentPath; its children at level
findChildren(t, nodeList, parentPath, level) ==
  IF nodeList = <<>> THEN <<>>
  ELSE LET node == NodeAt(t.nodes, Head(nodeList))
       IN  IF node.path = parentPath
           THEN SelectSeq(node.children,
                          LAMBDA c : NodeAt(t.nodes, c).level = level)
           ELSE LET found == findChildren(t, node.children, parentPath, level)
                IN  IF found # <<>> THEN found
                    ELSE findChildren(t, Tail(nodeList), parentPath, level)

\* parentPath = <<>> stands for null
nodesToDistribute(t, parentPath, level) ==
  IF parentPath = <<>>
  THEN SelectSeq(t.roots, LAMBDA r : NodeAt(t.nodes, r).level = level)
  ELSE findChildren(t, t.roots, parentPath, level)

\* const equalPercentage = 100 / nodesToDistribute.length
equalPercentage(count) == Rat(100, count)

\* 100 - (Math.floor(equalPercentage * 100) / 100) * nodesToDistribute.length
remainder(count) ==
  RSub(RInt(100),
       RMul(RDivInt(RInt(RFloor(RMul(equalPercentage(count), RInt(100)))), 100),
            RInt(count)))

\* index === 0 ? equalPercentage + remainder : equalPercentage
SharePercentage(index, count) ==
  IF index = 1 THEN RAdd(equalPercentage(count), remainder(count))
  ELSE equalPercentage(count)

DistributeOne(newAllocations, nodePath, index, count, level, skus, sess) ==
  LET percentage == SharePercentage(index, count)
      parentAmount == getParentAmount(nodePath, newAllocations, sess)
      amount == AmountOf(parentAmount, percentage)
      quantity == QuantityOf(amount, nodePath, level, Len(nodePath), skus, sess)
  IN  Upsert(newAllocations, nodePath, percentage, amount, quantity)

RECURSIVE DistributeFrom(_, _, _, _, _, _)
DistributeFrom(newAllocations, nodes, index, level, skus, sess) ==
  IF index > Len(nodes) THEN newAllocations
  ELSE DistributeFrom(
         DistributeOne(newAllocations, nodes[index], index, Len(nodes),
                       level, skus, sess),
         nodes, index + 1, level, skus, sess)

equalDistribution(parentPath, level, t, allocs, skus, sess) ==
  LET nodes == nodesToDistribute(t, parentPath, level)
  IN  IF nodes = <<>> THEN allocs
      ELSE recalculateDescendants(
             DistributeFrom(allocs, nodes, 1, level, skus, sess), skus, sess)

(***************************************************************************)
(* single-child auto-fill effect                                           *)
(***************************************************************************)
\* !existingAlloc || existingAlloc.percentage === 0
NeedsFill(allocs, path) ==
  ~HasAlloc(allocs, path) \/ RIsZero(find(allocs, path).percentage)

\* variant: hasChanges is raised for every single-child group, filled or not
FillGroup_AlwaysChanged(acc, t, parentPath, level, skus, sess) ==
  LET children == getChildrenByParent(t, parentPath, level)
  IN  IF Len(children) = 1
      THEN IF NeedsFill(acc.allocs, children[1])
           THEN LET child == children[1]
                    amount == getParentAmount(child, acc.allocs, sess)
                    quantity == QuantityOf(amount, child, level, Len(child), skus, sess)
                IN  [allocs |-> Upsert(acc.allocs, child, RInt(100), amount, quantity),
                     hasChanges |-> TRUE]
           ELSE [allocs |-> acc.allocs, hasChanges |-> TRUE]
      ELSE acc

\* variant: the first member of every group is filled, alone or not
FillGroup_FirstOfAnyGroup(acc, t, parentPath, level, skus, sess) ==
  LET children == getChildrenByParent(t, parentPath, level)
  IN  IF Len(children) >= 1 /\ NeedsFill(acc.allocs, children[1])
      THEN LET child == children[1]
               amount == getParentAmount(child, acc.allocs, sess)
               quantity == QuantityOf(amount, child, level, Len(child), skus, sess)
           IN  [allocs |-> Upsert(acc.allocs, child, RInt(100), amount, quantity),
                hasChanges |-> TRUE]
      ELSE acc

FillGroup(acc, t, parentPath, level, skus, sess) ==
  LET children == getChildrenByParent(t, parentPath, level)
  IN  IF Len(children) = 1 /\ NeedsFill(acc.allocs, children[1])
      THEN LET child == children[1]
               parentAmount == getParentAmount(child, acc.allocs, sess)
               amount == parentAmount
               quantity == QuantityOf(amount, child, level, Len(child), skus, sess)
           IN  [allocs |-> Upsert(acc.allocs, child, RInt(100), amount, quantity),
                hasChanges |-> TRUE]
      ELSE acc

RECURSIVE FillGroups(_, _, _, _, _, _)
FillGroups(acc, t, parentPaths, level, skus, sess) ==
  IF parentPaths = <<>> THEN acc
  ELSE FillGroups(FillGroup(acc, t, Head(parentPaths), level, skus, sess),
                  t, Tail(parentPaths), level, skus, sess)

RECURSIVE FillLevels_AttributeLevelsOnly(_, _, _, _, _)
\* variant: the loop stops at the last attribute level, the SKU level is left out
FillLevels_AttributeLevelsOnly(acc, t, level, skus, sess) ==
  IF level > Len(sess.hierarchyDefinitions) THEN acc
  ELSE FillLevels_AttributeLevelsOnly(
         FillGroups(acc, t, ParentPathsAt(t, level), level, skus, sess),
         t, level + 1, skus, sess)

RECURSIVE FillLevels(_, _, _, _, _)
FillLevels(acc, t, level, skus, sess) ==
  IF level > Len(sess.hierarchyDefinitions) + 1 THEN acc
  ELSE FillLevels(FillGroups(acc, t, ParentPathsAt(t, level), level, skus, sess),
                  t, level + 1, skus, sess)

\* the pass up to "if (hasChanges)": the list and the flag
autoFillPass(t, allocs, skus, sess) ==
  IF t.roots = <<>> THEN [allocs |-> allocs, hasChanges |-> FALSE]
  ELSE FillLevels([allocs |-> allocs, hasChanges |-> FALSE], t, 2, skus, sess)

autoFill(t, allocs, skus, sess) ==
  LET pass == autoFillPass(t, allocs, skus, sess)
  IN  IF pass.hasChanges
      THEN [allocs |-> recalculateDescendants(pass.allocs, skus, sess),
            hasChanges |-> TRUE]
      ELSE [allocs |-> allocs, hasChanges |-> FALSE]

(***************************************************************************)
(* exportToCSV: one row per SKU                                            *)
(***************************************************************************)
RECURSIVE CumulativeFrom_SkipUnset(_, _, _, _)
\* variant: a level without a positive percentage is passed over
CumulativeFrom_SkipUnset(cumulativePercentage, skuPath, level, allocs) ==
  IF level > Len(skuPath) THEN cumulativePercentage
  ELSE LET levelPath == SubSeq(skuPath, 1, level)
       IN  IF HasAlloc(allocs, levelPath)
              /\ RGtZero(find(allocs, levelPath).percentage)
           THEN CumulativeFrom_SkipUnset(
                  RMul(cumulativePercentage,
                       RDivInt(find(allocs, levelPath).percentage, 100)),
                  skuPath, level + 1, allocs)
           ELSE CumulativeFrom_SkipUnset(cumulativePercentage, skuPath,
                                         level + 1, allocs)

RECURSIVE CumulativeFrom(_, _, _, _)
\* the for loop over levels; 0 as soon as a level has no record or a
\* percentage that is not positive
CumulativeFrom(cumulativePercentage, skuPath, level, allocs) ==
  IF level > Len(skuPath) THEN cumulativePercentage
  ELSE LET levelPath == SubSeq(skuPath, 1, level)
       IN  IF HasAlloc(allocs, levelPath)
              /\ RGtZero(find(allocs, levelPath).percentage)
           THEN CumulativeFrom(
                  RMul(cumulativePercentage,
                       RDivInt(find(allocs, levelPath).percentage, 100)),
                  skuPath, level + 1, allocs)
           ELSE RInt(0)

\* Number.prototype.toFixed(4), as a count of 0.0001 units
ToFixed4(x) == RFloor(RAdd(RMul(x, RInt(10000)), Rat(1, 2)))

BlankRow(sku) ==
  [skuCode |-> sku.skuCode, percentage |-> <<>>, unitPrice |-> sku.unitPrice,
   finalAmount |-> <<>>, finalQuantity |-> <<>>]

\* variant: the amount is read from the SKU-level record
ExportRow_StoredAmount(sku, allocs, sess) ==
  LET skuPath == SkuPath(sku, sess.hierarchyDefinitions)
  IN  IF HasAlloc(allocs, skuPath) /\ RGtZero(find(allocs, skuPath).percentage)
      THEN LET cumulativePercentage == CumulativeFrom(RInt(1), skuPath, 1, allocs)
           IN  IF RGtZero(cumulativePercentage)
               THEN LET calculatedAmount == find(allocs, skuPath).amount
                    IN  [skuCode |-> sku.skuCode,
                         percentage |->
                           <<ToFixed4(RMul(cumulativePercentage, RInt(100)))>>,
                         unitPrice |-> sku.unitPrice,
                         finalAmount |-> <<calculatedAmount>>,
                         finalQuantity |->
                           IF sku.unitPrice > 0
                           THEN <<calculatedAmount \div sku.unitPrice>>
                           ELSE <<0>>]
               ELSE BlankRow(sku)
      ELSE BlankRow(sku)

\* variant: only the SKU-level percentage is used, the ancestors are not
ExportRow_SkuLevelOnly(sku, allocs, sess) ==
  LET skuPath == SkuPath(sku, sess.hierarchyDefinitions)
  IN  IF HasAlloc(allocs, skuPath) /\ RGtZero(find(allocs, skuPath).percentage)
      THEN LET cumulativePercentage ==
                 RDivInt(find(allocs, skuPath).percentage, 100)
               calculatedAmount ==
                 RFloor(RMul(RInt(sess.totalBudget), cumulativePercentage))
           IN  [skuCode |-> sku.skuCode,
                percentage |-> <<ToFixed4(RMul(cumulativePercentage, RInt(100)))>>,
                unitPrice |-> sku.unitPrice,
                finalAmount |-> <<calculatedAmount>>,
                finalQuantity |->
                  IF sku.unitPrice > 0
                  THEN <<calculatedAmount \div sku.unitPrice>>
                  ELSE <<0>>]
      ELSE BlankRow(sku)

\* variant: the amount is rounded up
ExportRow_RoundsUp(sku, allocs, sess) ==
  LET skuPath == SkuPath(sku, sess.hierarchyDefinitions)
  IN  IF HasAlloc(allocs, skuPath) /\ RGtZero(find(allocs, skuPath).percentage)
      THEN LET cumulativePercentage == CumulativeFrom(RInt(1), skuPath, 1, allocs)
           IN  IF RGtZero(cumulativePercentage)
               THEN LET finalPercentage == RMul(cumulativePercentage, RInt(100))
                        exact == RMul(RInt(sess.totalBudget), cumulativePercentage)
                        calculatedAmount ==
                          IF exact.d = 1 THEN exact.n ELSE RFloor(exact) + 1
                    IN  [skuCode |-> sku.skuCode,
                         percentage |-> <<ToFixed4(finalPercentage)>>,
                         unitPrice |-> sku.unitPrice,
                         finalAmount |-> <<calculatedAmount>>,
                         finalQuantity |->
                           IF sku.unitPrice > 0
                           THEN <<calculatedAmount \div sku.unitPrice>>
                           ELSE <<0>>]
               ELSE BlankRow(sku)
      ELSE BlankRow(sku)

ExportRow(sku, allocs, sess) ==
  LET skuPath == SkuPath(sku, sess.hierarchyDefinitions)
  IN  IF HasAlloc(allocs, skuPath) /\ RGtZero(find(allocs, skuPath).percentage)
      THEN LET cumulativePercentage == CumulativeFrom(RInt(1), skuPath, 1, allocs)
           IN  IF RGtZero(cumulativePercentage)
               THEN LET finalPercentage == RMul(cumulativePercentage, RInt(100))
                        calculatedAmount ==
                          RFloor(RMul(RInt(sess.totalBudget), cumulativePercentage))
                    IN  [skuCode |-> sku.skuCode,
                         percentage |-> <<ToFixed4(finalPercentage)>>,
                         unitPrice |-> sku.unitPrice,
                         finalAmount |-> <<calculatedAmount>>,
                         finalQuantity |->
                           IF sku.unitPrice > 0
                           THEN <<calculatedAmount \div sku.unitPrice>>
                           ELSE <<0>>]
               ELSE BlankRow(sku)
      ELSE BlankRow(sku)

exportToCSV(skus, allocs, sess) ==
  [i \in 1..Len(skus) |-> ExportRow(skus[i], allocs, sess)]

(***************************************************************************)
(* Session data of the model                                               *)
(***************************************************************************)
Sku(code, price, category, material) ==
  [skuCode |-> code, unitPrice |-> price,
   hierarchyValues |-> [c \in {"category", "material"} |->
                          IF c = "category" THEN category ELSE material]]

Definitions ==
  <<[level |-> 1, columnName |-> "category"],
    [level |-> 2, columnName |-> "material"]>>

\* one SKU alone under A/X, three SKUs under A/Y
Catalog ==
  <<Sku("S1", 2, "A", "X"), Sku("S2", 1, "A", "Y"),
    Sku("S3", 2, "A", "Y"), Sku("S4", 3, "A", "Y")>>

Session == [totalBudget |-> 7, hierarchyDefinitions |-> Definitions]

\* percentages typed into the inputs
Percentages == {RInt(0), RInt(70)}

NoOp == [op |-> "load", path |-> <<>>, level |-> 0]

\* the tables allocation, skuData and hierarchyDefinition of the session and
\* its totalBudget column, before anything was imported or saved
EmptyDb ==
  [allocation |-> <<>>, skuData |-> <<>>, hierarchyDefinition |-> <<>>,
   totalBudget |-> 0]

NoRequest == [method |-> "none", body |-> <<>>, status |-> 0, before |-> EmptyDb]

\* the browsers that send requests for the session
Clients == {1, 2}

\* a handler: the route it serves, the request body, the await it stands at
\* ("done" once it has responded), the status it responded with and the rows
\* it has read; existed records whether the period the request names had
\* rows when the request arrived, created the number of rows it inserted
NoHandler == [route |-> "none", body |-> <<>>, pc |-> "done", status |-> 0,
              rows |-> <<>>, existed |-> FALSE, created |-> 0]

NoHandlers == [c \in Clients |-> NoHandler]

(***************************************************************************)
(* State machine.  pending is the effect React still has to run after the  *)
(* last state change: "rebuild" (allocations changed), "autofill"          *)
(* (hierarchyTree changed) or "idle".  Effects are flushed before the next *)
(* event handler runs.                                                     *)
(***************************************************************************)
Init ==
  /\ session = Session
  /\ skuData = Catalog
  /\ allocations = <<>>
  /\ hierarchyTree = EmptyTree
  /\ pending = "rebuild"
  /\ last = NoOp
  /\ prevAllocations = <<>>
  /\ nOps = 0
  /\ rounds = 0
  /\ applied = {}
  /\ db = EmptyDb
  /\ http = NoRequest
  /\ nRequests = 0
  /\ handlers = NoHandlers

\* paths of the nodes the page renders an input for: every level-1 node in
\* the level-1 view, and in the view of level 2 .. L+1 the members of the
\* groups getChildrenByParent returns for the parent paths of that level
TreePaths(t) ==
  UNION {{getNodesByLevel(t, lvl)[k] : k \in
            {j \in 1..Len(getNodesByLevel(t, lvl)) :
               \/ lvl = 1
               \/ /\ HasParentPath(getNodesByLevel(t, lvl)[j])
                  /\ InGroup(getNodesByLevel(t, lvl)[j],
                             getParentPath(getNodesByLevel(t, lvl)[j]), lvl)}} :
           lvl \in 1..(Len(session.hierarchyDefinitions) + 1)}

UserStep(newAllocations, op) ==
  /\ pending = "idle"
  /\ nOps < MaxOps
  /\ allocations' = newAllocations
  /\ prevAllocations' = allocations
  /\ last' = op
  /\ nOps' = nOps + 1
  /\ rounds' = 0
  /\ pending' = "rebuild"
  /\ UNCHANGED <<session, skuData, hierarchyTree, applied>>
  /\ UNCHANGED serverVars

UpdateAllocation ==
  \E path \in TreePaths(hierarchyTree) : \E percentage \in Percentages :
    UserStep(updateAllocation(path, percentage, allocations, skuData, session),
             [op |-> "update", path |-> path, level |-> Len(path)])

\* the button of the level-1 view
EqualDistributionRoots ==
  UserStep(equalDistribution(<<>>, 1, hierarchyTree, allocations, skuData, session),
           [op |-> "equal", path |-> <<>>, level |-> 1])

\* the button of a parent group in the view of level 2 .. L+1; a group is
\* rendered when getChildrenByParent finds a member
EqualDistributionGroup ==
  \E level \in 2..(Len(session.hierarchyDefinitions) + 1) :
    \E k \in 1..Len(ParentPathsAt(hierarchyTree, level)) :
      LET parentPath == ParentPathsAt(hierarchyTree, level)[k]
      IN  /\ getChildrenByParent(hierarchyTree, parentPath, level) # <<>>
          /\ UserStep(equalDistribution(parentPath, level, hierarchyTree,
                                     allocations, skuData, session),
                   [op |-> "equal", path |-> parentPath, level |-> level])

\* useEffect(..., [session, skuData, allocations])
RebuildEffect ==
  /\ pending = "rebuild"
  /\ IF skuData # <<>>
     THEN /\ hierarchyTree' = buildHierarchyTree(skuData, allocations, session)
          /\ pending' = "autofill"
     ELSE /\ UNCHANGED hierarchyTree
          /\ pending' = "idle"
  /\ UNCHANGED <<session, skuData, allocations, last, prevAllocations,
                 nOps, rounds, applied>>
  /\ UNCHANGED serverVars

\* useEffect(..., [hierarchyTree, session, skuData]) when it calls setAllocations
AutoFillEffect ==
  /\ pending = "autofill"
  /\ LET pass == autoFill(hierarchyTree, allocations, skuData, session)
     IN  /\ pass.hasChanges
         /\ allocations' = pass.allocs
         /\ prevAllocations' = allocations
         /\ last' = [op |-> "autofill", path |-> <<>>, level |-> 0]
         /\ rounds' = rounds + 1
         /\ pending' = "rebuild"
  /\ UNCHANGED <<session, skuData, hierarchyTree, nOps, applied>>
  /\ UNCHANGED serverVars

\* the same effect when the pass finds nothing to change
AutoFillIdle ==
  /\ pending = "autofill"
  /\ ~autoFill(hierarchyTree, allocations, skuData, session).hasChanges
  /\ pending' = "idle"
  /\ UNCHANGED <<session, skuData, allocations, hierarchyTree,
                 last, prevAllocations, nOps, rounds, applied>>
  /\ UNCHANGED serverVars

Next ==
  \/ UpdateAllocation
  \/ EqualDistributionRoots
  \/ EqualDistributionGroup
  \/ RebuildEffect
  \/ AutoFillEffect
  \/ AutoFillIdle

Spec == Init /\ [][Next]_vars

(***************************************************************************)
(* The round-trip scenario: two columns, S1 (100, A/X), S2 (200, A/Y),     *)
(* total budget 10000, and the five edits applied once each in any order.  *)
(* applied is the set of edits made so far.                                *)
(***************************************************************************)
RoundTripSession == [totalBudget |-> 10000, hierarchyDefinitions |-> Definitions]

RoundTripSkus == <<Sku("S1", 100, "A", "X"), Sku("S2", 200, "A", "Y")>>

RoundTripEdits ==
  {[path |-> <<"A">>, percentage |-> RInt(100)],
   [path |-> <<"A", "X">>, percentage |-> RInt(40)],
   [path |-> <<"A", "Y">>, percentage |-> RInt(60)],
   [path |-> <<"A", "X", "S1">>, percentage |-> RInt(100)],
   [path |-> <<"A", "Y", "S2">>, percentage |-> RInt(100)]}

InitRoundTrip ==
  /\ session = RoundTripSession
  /\ skuData = RoundTripSkus
  /\ allocations = <<>>
  /\ hierarchyTree = EmptyTree
  /\ pending = "rebuild"
  /\ last = NoOp
  /\ prevAllocations = <<>>
  /\ nOps = 0
  /\ rounds = 0
  /\ applied = {}
  /\ db = EmptyDb
  /\ http = NoRequest
  /\ nRequests = 0
  /\ handlers = NoHandlers

RoundTripEdit ==
  \E edit \in RoundTripEdits \ applied :
    /\ pending = "idle"
    /\ edit.path \in TreePaths(hierarchyTree)
    /\ allocations' = updateAllocation(edit.path, edit.percentage,
                                       allocations, skuData, session)
    /\ prevAllocations' = allocations
    /\ last' = [op |-> "update", path |-> edit.path, level |-> Len(edit.path)]
    /\ nOps' = nOps + 1
    /\ rounds' = 0
    /\ applied' = applied \cup {edit}
    /\ pending' = "rebuild"
    /\ UNCHANGED <<session, skuData, hierarchyTree>>
    /\ UNCHANGED serverVars

NextRoundTrip ==
  \/ RoundTripEdit
  \/ RebuildEffect
  \/ AutoFillEffect
  \/ AutoFillIdle

SpecRoundTrip == InitRoundTrip /\ [][NextRoundTrip]_vars

(***************************************************************************)
(* Sessions whose SKUs lack some hierarchy values.  The page treats them   *)
(* like any other session: same effects, same handlers.                    *)
(***************************************************************************)
\* S5 lacks the last column; S6 lacks the first column and its material has
\* the name of a category; S7 lacks both
PartialCatalogs ==
  {<<Sku("S1", 2, "A", "X"), Sku("S2", 1, "A", "Y"), Sku("S5", 3, "A", "")>>,
   <<Sku("S1", 2, "A", "X"), Sku("S6", 3, "", "A")>>,
   <<Sku("S1", 2, "A", "X"), Sku("S3", 1, "B", "X"), Sku("S7", 3, "", "")>>}

InitPartial ==
  /\ session = Session
  /\ skuData \in PartialCatalogs
  /\ allocations = <<>>
  /\ hierarchyTree = EmptyTree
  /\ pending = "rebuild"
  /\ last = NoOp
  /\ prevAllocations = <<>>
  /\ nOps = 0
  /\ rounds = 0
  /\ applied = {}
  /\ db = EmptyDb
  /\ http = NoRequest
  /\ nRequests = 0
  /\ handlers = NoHandlers

SpecPartial == InitPartial /\ [][Next]_vars

(***************************************************************************)
(* Page load over arbitrary small sessions: one or two hierarchy columns,  *)
(* up to MaxSkus SKU rows whose values may be empty or shared between the  *)
(* columns, and an allocation list as GET /allocations returned it.  The   *)
(* effects run; the user does nothing.                                     *)
(***************************************************************************)
TreeSessions ==
  {[totalBudget |-> 7, hierarchyDefinitions |-> SubSeq(Definitions, 1, n)] :
     n \in 1..2}

CategoryValues == {"", "A", "B"}
MaterialValues == {"", "A", "X"}
SkuCodes == <<"S1", "S2", "S3", "S4", "S5">>

TreeCatalogs ==
  UNION {{[i \in 1..n |-> Sku(SkuCodes[i], i, f[i][1], f[i][2])] :
            f \in [1..n -> CategoryValues \X MaterialValues]} :
         n \in 1..MaxSkus}

LoadedRecord(path, percentage, amount, quantity) ==
  [hierarchyPath |-> path, level |-> Len(path), percentage |-> percentage,
   amount |-> amount, quantity |-> quantity]

LoadedLists ==
  {<<>>,
   <<LoadedRecord(<<"A">>, RInt(50), 3, 1),
     LoadedRecord(<<"A", "X">>, RInt(70), 2, 2),
     LoadedRecord(<<"A", "X", "S1">>, RInt(100), 2, 2)>>}

InitTree ==
  /\ session \in TreeSessions
  /\ skuData \in TreeCatalogs
  /\ allocations \in LoadedLists
  /\ hierarchyTree = EmptyTree
  /\ pending = "rebuild"
  /\ last = NoOp
  /\ prevAllocations = <<>>
  /\ nOps = 0
  /\ rounds = 0
  /\ applied = {}
  /\ db = EmptyDb
  /\ http = NoRequest
  /\ nRequests = 0
  /\ handlers = NoHandlers

NextTree ==
  \/ RebuildEffect
  \/ AutoFillEffect
  \/ AutoFillIdle

SpecTree == InitTree /\ [][NextTree]_vars

(***************************************************************************)
(* Sessions for the amounts of equal distribution: a small and a large     *)
(* total budget, three roots or three SKUs under one parent.               *)
(***************************************************************************)
DistributeSessions ==
  {[totalBudget |-> b, hierarchyDefinitions |-> Definitions] : b \in {7, 40000}}

ThreeRoots ==
  <<Sku("S1", 2, "A", "X"), Sku("S2", 1, "B", "X"), Sku("S3", 2, "C", "X")>>

InitDistribute ==
  /\ session \in DistributeSessions
  /\ skuData \in {Catalog, ThreeRoots}
  /\ allocations = <<>>
  /\ hierarchyTree = EmptyTree
  /\ pending = "rebuild"
  /\ last = NoOp
  /\ prevAllocations = <<>>
  /\ nOps = 0
  /\ rounds = 0
  /\ applied = {}
  /\ db = EmptyDb
  /\ http = NoRequest
  /\ nRequests = 0
  /\ handlers = NoHandlers

SpecDistribute == InitDistribute /\ [][Next]_vars

(***************************************************************************)
(* Export of a loaded session.  The list is one the user entered from the  *)
(* top level down, saved, and GET /allocations returned by level and path; *)
(* the effects run and the export is taken from what they leave.           *)
(***************************************************************************)
ExportSkus ==
  <<Sku("S1", 2, "A", "X"), Sku("S2", 1, "A", "X"), Sku("S3", 2, "B", "X")>>

\* the node paths of ExportSkus by level, then by path
ExportPaths ==
  <<<<"A">>, <<"B">>, <<"A", "X">>, <<"B", "X">>,
    <<"A", "X", "S1">>, <<"A", "X", "S2">>, <<"B", "X", "S3">>>>

\* what was typed for a path: nothing, 50 or 70
ExportEntries == {<<>>, <<RInt(50)>>, <<RInt(70)>>}

RECURSIVE EnteredList(_, _, _)
\* the list after the entries for the paths k .. have been typed in turn
EnteredList(allocs, entries, k) ==
  IF k > Len(ExportPaths) THEN allocs
  ELSE EnteredList(
         IF entries[k] = <<>> THEN allocs
         ELSE updateAllocation(ExportPaths[k], entries[k][1], allocs,
                               ExportSkus, Session),
         entries, k + 1)

InitExport ==
  /\ session = Session
  /\ skuData = ExportSkus
  /\ \E entries \in [1..Len(ExportPaths) -> ExportEntries] :
       allocations = EnteredList(<<>>, entries, 1)
  /\ hierarchyTree = EmptyTree
  /\ pending = "rebuild"
  /\ last = NoOp
  /\ prevAllocations = <<>>
  /\ nOps = 0
  /\ rounds = 0
  /\ applied = {}
  /\ db = EmptyDb
  /\ http = NoRequest
  /\ nRequests = 0
  /\ handlers = NoHandlers

SpecExport == InitExport /\ [][NextTree]_vars

(***************************************************************************)
(* The spreadsheet page (spreadsheet/page.tsx): the same state, its own    *)
(* getParentAmount and updateAllocation, the same buildHierarchyTree, one  *)
(* effect that rebuilds the tree, and an input on every row of the tree.   *)
(***************************************************************************)
\* getParentAmount of the spreadsheet page
spreadsheetGetParentAmount(path, allocs, sess) ==
  IF Len(path) <= 1 THEN sess.totalBudget
  ELSE LET parentPath == Front(path)
       IN  IF HasAlloc(allocs, parentPath)
           THEN find(allocs, parentPath).amount
           ELSE sess.totalBudget

\* updateAllocation of the spreadsheet page, up to setAllocations(updated)
spreadsheetUpdateAllocation(path, percentage, allocs, skus, sess) ==
  LET parentAmount == spreadsheetGetParentAmount(path, allocs, sess)
      amount == AmountOf(parentAmount, percentage)
      pathLevel == Len(path)
      quantity == QuantityOf(amount, path, pathLevel, pathLevel, skus, sess)
  IN  Upsert(allocs, path, percentage, amount, quantity)

RECURSIVE SheetRows(_, _)
\* renderHierarchyNodes with every group expanded: the paths of the rows
SheetRows(t, nodeList) ==
  IF nodeList = <<>> THEN <<>>
  ELSE <<Head(nodeList)>>
         \o SheetRows(t, NodeAt(t.nodes, Head(nodeList)).children)
         \o SheetRows(t, Tail(nodeList))

\* what GET /allocations returns: nothing, or the list the session page
\* saved after A = 50, A/X = 70 and A/X/S1 = 100 were entered
SheetLists ==
  {<<>>,
   updateAllocation(<<"A", "X", "S1">>, RInt(100),
     updateAllocation(<<"A", "X">>, RInt(70),
       updateAllocation(<<"A">>, RInt(50), <<>>, Catalog, Session),
       Catalog, Session),
     Catalog, Session)}

InitSheet ==
  /\ session = Session
  /\ skuData = Catalog
  /\ allocations \in SheetLists
  /\ hierarchyTree = EmptyTree
  /\ pending = "rebuild"
  /\ last = NoOp
  /\ prevAllocations = <<>>
  /\ nOps = 0
  /\ rounds = 0
  /\ applied = {}
  /\ db = EmptyDb
  /\ http = NoRequest
  /\ nRequests = 0
  /\ handlers = NoHandlers

\* onChange of the input of a row
SheetUpdateAllocation ==
  \E k \in 1..Len(SheetRows(hierarchyTree, hierarchyTree.roots)) :
    \E percentage \in Percentages :
      LET path == SheetRows(hierarchyTree, hierarchyTree.roots)[k]
      IN  /\ pending = "idle"
          /\ nOps < MaxOps
          /\ allocations' = spreadsheetUpdateAllocation(path, percentage,
                                allocations, skuData, session)
          /\ hierarchyTree' = buildHierarchyTree(skuData, allocations, session)
          /\ prevAllocations' = allocations
          /\ last' = [op |-> "sheet", path |-> path, level |-> Len(path)]
          /\ nOps' = nOps + 1
          /\ pending' = "rebuild"
          /\ UNCHANGED <<session, skuData, rounds, applied>>
          /\ UNCHANGED serverVars

\* useEffect(..., [session, skuData, allocations]) of the spreadsheet page
SheetRebuildEffect ==
  /\ pending = "rebuild"
  /\ IF skuData # <<>>
     THEN hierarchyTree' = buildHierarchyTree(skuData, allocations, session)
     ELSE UNCHANGED hierarchyTree
  /\ pending' = "idle"
  /\ UNCHANGED <<session, skuData, allocations, last, prevAllocations,
                 nOps, rounds, applied>>
  /\ UNCHANGED serverVars

NextSheet ==
  \/ SheetUpdateAllocation
  \/ SheetRebuildEffect

SpecSheet == InitSheet /\ [][NextSheet]_vars

(***************************************************************************)
(* Server.  One session is modelled, so "where: { sessionId }" selects     *)
(* every row of a table.  A handler is one action; fate is the await at    *)
(* which it leaves the try block: the session check fails ("denied"), a    *)
(* Prisma call rejects, or none does ("done").                             *)
(***************************************************************************)
\* a number of a JSON body is a rational in the model; z.number().int()
IsWhole(x) == x.d = 1

\* a record of the page as JSON.stringify writes it into a request body:
\* level, amount and quantity become JSON numbers
JsonRecord(a) ==
  [a EXCEPT !.level = RInt(@), !.amount = RInt(@), !.quantity = RInt(@)]

\* variant: int() is left out of the schema
ValidAllocation_WholeNotChecked(a) ==
  /\ a.level.n > 0
  /\ a.percentage.n >= 0
  /\ a.percentage.n <= 100 * a.percentage.d
  /\ a.amount.n >= 0
  /\ a.quantity.n >= 0

\* allocationSchema
ValidAllocation(a) ==
  /\ IsWhole(a.level) /\ a.level.n > 0
  /\ a.percentage.n >= 0
  /\ a.percentage.n <= 100 * a.percentage.d
  /\ IsWhole(a.amount) /\ a.amount.n >= 0
  /\ IsWhole(a.quantity) /\ a.quantity.n >= 0

\* a.period || null, on the period cell: undefined, null and '' give NULL
StoredPeriod(a) ==
  IF "period" \notin DOMAIN a THEN <<>>
  ELSE IF a.period = <<"">> THEN <<>> ELSE a.period

\* the numbers of a validated record are whole: level and quantity go into
\* Int columns, BigInt(a.amount) into the amount column
AllocationRow(a) ==
  [hierarchyPath |-> a.hierarchyPath, level |-> a.level.n,
   percentage |-> a.percentage, amount |-> a.amount.n,
   quantity |-> a.quantity.n, period |-> StoredPeriod(a)]

allocationRecords(body) == [i \in 1..Len(body) |-> AllocationRow(body[i])]

PutFates == {"denied", "notOwned", "deleteRejects", "createRejects", "done"}

\* PUT /api/sessions/[id]/allocations: status and the allocation table after
PutAllocations(body, fate, table) ==
  IF fate = "denied"
  THEN [status |-> 401, allocation |-> table]
  ELSE IF fate = "notOwned"
  THEN [status |-> 404, allocation |-> table]
  ELSE IF \E i \in 1..Len(body) : ~ValidAllocation(body[i])
  THEN [status |-> 400, allocation |-> table]
  ELSE IF fate = "deleteRejects"
  THEN [status |-> 500, allocation |-> table]
  ELSE IF fate = "createRejects"
  THEN [status |-> 500, allocation |-> <<>>]
  ELSE [status |-> 200, allocation |-> allocationRecords(body)]

\* skuDataSchema
ValidSku(sku) == sku.unitPrice > 0

ImportDefinitions(hierarchyColumns) ==
  [i \in 1..Len(hierarchyColumns) |->
     [level |-> i, columnName |-> hierarchyColumns[i]]]

ImportFates ==
  {"denied", "transactionRejects", "definitionsReject", "skuDataRejects", "done"}

\* POST /api/sessions/[id]/import: status and the tables after
ImportPost(body, fate, tables) ==
  LET cleared == [tables EXCEPT !.allocation = <<>>, !.skuData = <<>>,
                                !.hierarchyDefinition = <<>>]
      withDefinitions ==
        [cleared EXCEPT !.hierarchyDefinition =
                           ImportDefinitions(body.hierarchyColumns)]
  IN  IF fate = "denied"
      THEN [status |-> 401, tables |-> tables]
      ELSE IF \E i \in 1..Len(body.skuData) : ~ValidSku(body.skuData[i])
      THEN [status |-> 400, tables |-> tables]
      ELSE IF fate = "transactionRejects"
      THEN [status |-> 500, tables |-> tables]
      ELSE IF fate = "definitionsReject"
      THEN [status |-> 500, tables |-> cleared]
      ELSE IF fate = "skuDataRejects"
      THEN [status |-> 500, tables |-> withDefinitions]
      ELSE [status |-> 200,
            tables |-> [withDefinitions EXCEPT !.skuData = body.skuData]]

\* requests of the server model
BodyRecord(path, percentage, amount, quantity, period) ==
  [hierarchyPath |-> path, level |-> Len(path), percentage |-> percentage,
   amount |-> amount, quantity |-> quantity, period |-> period]

PutBodies ==
  {<<>>,
   <<JsonRecord(BodyRecord(<<"A">>, RInt(100), 7, 1, <<>>))>>,
   <<JsonRecord(BodyRecord(<<"A">>, RInt(70), 4, 0, <<"P1">>)),
     JsonRecord(BodyRecord(<<"A", "X">>, RInt(100), 4, 2, <<"P1">>))>>,
   <<JsonRecord(BodyRecord(<<"A">>, RInt(50), 3, 0, <<"P2">>)),
     JsonRecord(BodyRecord(<<"A">>, RInt(0), 0, 0, <<"">>))>>,
   <<JsonRecord(BodyRecord(<<"A">>, RInt(150), 10, 2, <<"P1">>))>>,
   <<JsonRecord(BodyRecord(<<"A">>, Rat(0 - 1, 2), 0, 0, <<>>))>>,
   <<JsonRecord(BodyRecord(<<"A">>, RInt(50), 0 - 3, 0, <<>>))>>,
   <<JsonRecord(BodyRecord(<<"A">>, RInt(50), 3, 0 - 1, <<>>))>>,
   <<JsonRecord(BodyRecord(<<"A">>, RInt(100), 7, 1, <<>>)),
     [JsonRecord(BodyRecord(<<"A", "X">>, RInt(50), 3, 1, <<>>))
        EXCEPT !.amount = Rat(7, 2)]>>,
   <<[JsonRecord(BodyRecord(<<"A">>, RInt(50), 3, 1, <<>>))
        EXCEPT !.quantity = Rat(3, 2)]>>,
   <<[JsonRecord(BodyRecord(<<"A">>, RInt(50), 3, 1, <<>>))
        EXCEPT !.level = RInt(0)]>>}

ImportBodies ==
  {[skuData |-> Catalog, hierarchyColumns |-> <<"category", "material">>],
   [skuData |-> <<Sku("S1", 2, "A", "X"), Sku("S2", 1, "B", "Y")>>,
    hierarchyColumns |-> <<"category">>],
   [skuData |-> <<Sku("S1", 0, "A", "X")>>,
    hierarchyColumns |-> <<"category", "material">>]}

\* a session with rows of the default period and of period P1
StoredDb ==
  [allocation |->
     <<BodyRecord(<<"A">>, RInt(100), 7, 0, <<>>),
       BodyRecord(<<"A", "X">>, RInt(70), 4, 2, <<>>),
       BodyRecord(<<"A">>, RInt(50), 3, 0, <<"P1">>)>>,
   skuData |-> RoundTripSkus,
   hierarchyDefinition |-> Definitions,
   totalBudget |-> 7]

InitServer ==
  /\ session = Session
  /\ skuData = <<>>
  /\ allocations = <<>>
  /\ hierarchyTree = EmptyTree
  /\ pending = "idle"
  /\ last = NoOp
  /\ prevAllocations = <<>>
  /\ nOps = 0
  /\ rounds = 0
  /\ applied = {}
  /\ db = StoredDb
  /\ http = NoRequest
  /\ nRequests = 0
  /\ handlers = NoHandlers

PutRequest ==
  \E body \in PutBodies : \E fate \in PutFates :
    LET result == PutAllocations(body, fate, db.allocation)
    IN  /\ nRequests < MaxRequests
        /\ nRequests' = nRequests + 1
        /\ db' = [db EXCEPT !.allocation = result.allocation]
        /\ http' = [method |-> "PUT", body |-> body,
                    status |-> result.status, before |-> db]
        /\ UNCHANGED handlers
        /\ UNCHANGED pageVars

ImportRequest ==
  \E body \in ImportBodies : \E fate \in ImportFates :
    LET result == ImportPost(body, fate, db)
    IN  /\ nRequests < MaxRequests
        /\ nRequests' = nRequests + 1
        /\ db' = result.tables
        /\ http' = [method |-> "POST", body |-> body,
                    status |-> result.status, before |-> db]
        /\ UNCHANGED handlers
        /\ UNCHANGED pageVars

NextServer ==
  \/ PutRequest
  \/ ImportRequest

SpecServer == InitServer /\ [][NextServer]_vars

(***************************************************************************)
(* Concurrent requests.  Node runs a handler up to its next await; the     *)
(* Prisma calls of the handlers of several clients interleave, each call   *)
(* being one statement of the database.                                    *)
(***************************************************************************)
\* the key of the allocation table within the session
AllocationKey(row) == <<row.hierarchyPath, row.period>>

\* prisma.allocation.createMany: one INSERT, refused as a whole when a row
\* would repeat a key of the table or of the statement
createMany(table, rows) ==
  LET all == table \o rows
  IN  IF \E i, j \in 1..Len(all) :
           i < j /\ j > Len(table) /\ AllocationKey(all[i]) = AllocationKey(all[j])
      THEN [ok |-> FALSE, table |-> table]
      ELSE [ok |-> TRUE, table |-> all]

\* getServerSession and session.findFirst of the PUT handler
Access == {"unauthenticated", "notOwned", "granted"}

Responded(route, body, status) ==
  [route |-> route, body |-> body, pc |-> "done", status |-> status,
   rows |-> <<>>, existed |-> FALSE, created |-> 0]

\* PUT /allocations up to the first statement on the allocation table
PutBegin(c) ==
  \E body \in PutBodies : \E access \in Access :
    /\ handlers[c].pc = "done"
    /\ nRequests < MaxRequests
    /\ nRequests' = nRequests + 1
    /\ handlers' = [handlers EXCEPT ![c] =
         IF access = "unauthenticated" THEN Responded("PUT", body, 401)
         ELSE IF access = "notOwned" THEN Responded("PUT", body, 404)
         ELSE IF \E i \in 1..Len(body) : ~ValidAllocation(body[i])
         THEN Responded("PUT", body, 400)
         ELSE [route |-> "PUT", body |-> body, pc |-> "deleteMany",
               status |-> 0, rows |-> <<>>, existed |-> FALSE,
               created |-> 0]]
    /\ UNCHANGED <<db, http>>
    /\ UNCHANGED pageVars

\* await prisma.allocation.deleteMany({ where: { sessionId } })
PutDelete(c) ==
  /\ handlers[c].route = "PUT"
  /\ handlers[c].pc = "deleteMany"
  /\ db' = [db EXCEPT !.allocation = <<>>]
  /\ handlers' = [handlers EXCEPT ![c].pc = "createMany"]
  /\ UNCHANGED <<http, nRequests>>
  /\ UNCHANGED pageVars

\* await prisma.allocation.createMany({ data: allocationRecords })
PutCreate(c) ==
  /\ handlers[c].route = "PUT"
  /\ handlers[c].pc = "createMany"
  /\ LET result == createMany(db.allocation,
                              allocationRecords(handlers[c].body))
     IN  /\ db' = [db EXCEPT !.allocation = result.table]
         /\ handlers' = [handlers EXCEPT
                           ![c].pc = "done",
                           ![c].status = IF result.ok THEN 200 ELSE 500,
                           ![c].created = IF result.ok
                                          THEN Len(handlers[c].body) ELSE 0]
  /\ UNCHANGED <<http, nRequests>>
  /\ UNCHANGED pageVars

\* the awaited call rejects for a reason of its own (connection, timeout):
\* the catch block answers 500
AwaitRejects(c) ==
  /\ handlers[c].pc # "done"
  /\ handlers' = [handlers EXCEPT ![c].pc = "done", ![c].status = 500]
  /\ UNCHANGED <<db, http, nRequests>>
  /\ UNCHANGED pageVars

NextRace ==
  \E c \in Clients :
    \/ PutBegin(c)
    \/ PutDelete(c)
    \/ PutCreate(c)
    \/ AwaitRejects(c)

SpecRace == InitServer /\ [][NextRace]_vars

(***************************************************************************)
(* POST and GET /api/sessions/[id]/periods.  The request addresses the     *)
(* modelled session, which session.findUnique finds.                       *)
(***************************************************************************)
\* String.prototype.trim on the period names of the model
Trim(name) ==
  IF name = " P2 " THEN "P2"
  ELSE IF name = "  " THEN ""
  ELSE name

\* !period || typeof period !== 'string' || period.trim() === ''
PeriodNameMissing(body) ==
  \/ body.period = <<>>
  \/ body.period = <<"">>
  \/ Trim(body.period[1]) = ""

\* period.trim(), as the cell stored in the period column
NewPeriod(body) == <<Trim(body.period[1])>>

\* variant: the lookup finds nothing, whatever the table holds
PeriodExists_Never(table, period) == FALSE

\* prisma.allocation.findFirst({ where: { sessionId, period } }) found a row
PeriodExists(table, period) ==
  \E i \in 1..Len(table) : table[i].period = period

\* copyFrom !== undefined && copyFrom !== null && copyFrom !== ''
HasCopyFrom(body) == body.copyFrom # <<>> /\ body.copyFrom # <<"">>

\* prisma.allocation.findMany({ where: { sessionId, period: copyFrom } })
sourceAllocations(table, copyFrom) ==
  SelectSeq(table, LAMBDA row : row.period = copyFrom)

\* sourceAllocations.map(allocation => ({ ...allocation, period }))
CopiedRows(rows, period) ==
  [i \in 1..Len(rows) |-> [rows[i] EXCEPT !.period = period]]

\* the period cells in the order of the sort of GET: null first, then the
\* names by localeCompare
PeriodOrder == <<<<>>, <<"P1">>, <<"P2">>, <<"P3">>>>

\* GET /api/sessions/[id]/periods: the distinct periods of the rows, sorted
GetPeriods(table) ==
  SelectSeq(PeriodOrder, LAMBDA period : PeriodExists(table, period))

PostBodies ==
  {[period |-> period, copyFrom |-> copyFrom] :
     period \in {<<>>, <<"  ">>, <<"P1">>, <<"P2">>, <<" P2 ">>},
     copyFrom \in {<<>>, <<"">>, <<"P1">>, <<"P3">>}}

\* POST /periods up to the first statement on the allocation table
PostBegin(c) ==
  \E body \in PostBodies :
    /\ handlers[c].pc = "done"
    /\ nRequests < MaxRequests
    /\ nRequests' = nRequests + 1
    /\ handlers' = [handlers EXCEPT ![c] =
         IF PeriodNameMissing(body) THEN Responded("POST", body, 400)
         ELSE [route |-> "POST", body |-> body, pc |-> "findFirst",
               status |-> 0, rows |-> <<>>,
               existed |-> \E i \in 1..Len(db.allocation) :
                             db.allocation[i].period = NewPeriod(body),
               created |-> 0]]
    /\ UNCHANGED <<db, http>>
    /\ UNCHANGED pageVars

\* await prisma.allocation.findFirst, the 409 and the branch on copyFrom
PostFindFirst(c) ==
  /\ handlers[c].route = "POST"
  /\ handlers[c].pc = "findFirst"
  /\ handlers' = [handlers EXCEPT ![c] =
       IF PeriodExists(db.allocation, NewPeriod(handlers[c].body))
       THEN [@ EXCEPT !.pc = "done", !.status = 409]
       ELSE IF HasCopyFrom(handlers[c].body)
       THEN [@ EXCEPT !.pc = "findMany"]
       ELSE [@ EXCEPT !.pc = "done", !.status = 200]]
  /\ UNCHANGED <<db, http, nRequests>>
  /\ UNCHANGED pageVars

\* await prisma.allocation.findMany and the test of sourceAllocations.length
PostFindMany(c) ==
  /\ handlers[c].route = "POST"
  /\ handlers[c].pc = "findMany"
  /\ LET rows == sourceAllocations(db.allocation, handlers[c].body.copyFrom)
     IN  handlers' = [handlers EXCEPT ![c] =
           IF Len(rows) > 0
           THEN [@ EXCEPT !.pc = "createMany", !.rows = rows]
           ELSE [@ EXCEPT !.pc = "done", !.status = 200]]
  /\ UNCHANGED <<db, http, nRequests>>
  /\ UNCHANGED pageVars

\* await prisma.allocation.createMany with the copied rows
PostCreate(c) ==
  /\ handlers[c].route = "POST"
  /\ handlers[c].pc = "createMany"
  /\ LET result == createMany(db.allocation,
                              CopiedRows(handlers[c].rows,
                                         NewPeriod(handlers[c].body)))
     IN  /\ db' = [db EXCEPT !.allocation = result.table]
         /\ handlers' = [handlers EXCEPT
                           ![c].pc = "done",
                           ![c].status = IF result.ok THEN 200 ELSE 500,
                           ![c].created = IF result.ok
                                          THEN Len(handlers[c].rows) ELSE 0]
  /\ UNCHANGED <<http, nRequests>>
  /\ UNCHANGED pageVars

NextPeriods ==
  \E c \in Clients :
    \/ PostBegin(c)
    \/ PostFindFirst(c)
    \/ PostFindMany(c)
    \/ PostCreate(c)
    \/ AwaitRejects(c)

SpecPeriods == InitServer /\ [][NextPeriods]_vars

(***************************************************************************)
(* Save, budget update and reload.  GET /allocations returns the rows      *)
(* ordered by level, then by hierarchyPath.                                *)
(***************************************************************************)
\* the segment names of the model in string order
SegmentOrder == <<"A", "B", "S1", "S2", "S3", "S4", "S5", "X", "Y">>

Rank(name) == CHOOSE i \in 1..Len(SegmentOrder) : SegmentOrder[i] = name

RECURSIVE PathBefore(_, _)
\* p sorts strictly before q as a '/'-joined string
PathBefore(p, q) ==
  IF q = <<>> THEN FALSE
  ELSE IF p = <<>> THEN TRUE
  ELSE IF Head(p) # Head(q) THEN Rank(Head(p)) < Rank(Head(q))
  ELSE PathBefore(Tail(p), Tail(q))

\* orderBy: [{ level: 'asc' }, { hierarchyPath: 'asc' }]
RowBefore(a, b) ==
  \/ a.level < b.level
  \/ a.level = b.level /\ PathBefore(a.hierarchyPath, b.hierarchyPath)

RECURSIVE InsertRow(_, _)
InsertRow(sorted, row) ==
  IF sorted = <<>> THEN <<row>>
  ELSE IF RowBefore(row, Head(sorted)) THEN <<row>> \o sorted
  ELSE <<Head(sorted)>> \o InsertRow(Tail(sorted), row)

RECURSIVE OrderRows(_)
OrderRows(table) ==
  IF table = <<>> THEN <<>>
  ELSE InsertRow(OrderRows(Front(table)), Last(table))

\* GET /api/sessions/[id]/allocations
GetAllocations(table) == OrderRows(table)

\* totals the user types into the budget dialog
Budgets == {7, 10}

SaveSkus == <<Sku("S1", 2, "A", "X"), Sku("S2", 1, "A", "Y")>>

SaveDb ==
  [allocation |-> <<>>, skuData |-> SaveSkus,
   hierarchyDefinition |-> Definitions, totalBudget |-> 7]

\* the page right after loadData on a freshly imported session
InitSave ==
  /\ db = SaveDb
  /\ http = NoRequest
  /\ nRequests = 0
  /\ handlers = NoHandlers
  /\ session = [totalBudget |-> SaveDb.totalBudget,
                hierarchyDefinitions |-> SaveDb.hierarchyDefinition]
  /\ skuData = SaveDb.skuData
  /\ allocations = GetAllocations(SaveDb.allocation)
  /\ hierarchyTree = EmptyTree
  /\ pending = "rebuild"
  /\ last = NoOp
  /\ prevAllocations = <<>>
  /\ nOps = 0
  /\ rounds = 0
  /\ applied = {}

\* allocations.map(a => ({ ...a, amount: parseInt(a.amount) })), stringified
allocationsToSave(allocs) == [i \in 1..Len(allocs) |-> JsonRecord(allocs[i])]

\* saveAllocations: the PUT with the list as it is; the page state is kept
SaveAllocations ==
  /\ pending = "idle"
  /\ nRequests < MaxRequests
  /\ nRequests' = nRequests + 1
  /\ \E fate \in PutFates :
       LET body == allocationsToSave(allocations)
           result == PutAllocations(body, fate, db.allocation)
       IN  /\ db' = [db EXCEPT !.allocation = result.allocation]
           /\ http' = [method |-> "PUT", body |-> body,
                       status |-> result.status, before |-> db]
  /\ last' = [op |-> "save", path |-> <<>>, level |-> 0]
  /\ UNCHANGED <<session, skuData, allocations, hierarchyTree, pending,
                 prevAllocations, nOps, rounds, applied, handlers>>

\* updateBudget with response.ok: PUT /api/sessions/[id] stores the total,
\* then loadData replaces session, skuData and allocations by what the server
\* holds
UpdateBudget ==
  /\ pending = "idle"
  /\ nRequests < MaxRequests
  /\ nRequests' = nRequests + 1
  /\ \E newBudget \in Budgets :
       /\ newBudget > 0
       /\ db' = [db EXCEPT !.totalBudget = newBudget]
       /\ http' = [method |-> "PUT session", body |-> <<newBudget>>,
                   status |-> 200, before |-> db]
       /\ session' = [totalBudget |-> newBudget,
                      hierarchyDefinitions |-> db.hierarchyDefinition]
  /\ skuData' = db.skuData
  /\ allocations' = GetAllocations(db.allocation)
  /\ prevAllocations' = allocations
  /\ last' = [op |-> "budget", path |-> <<>>, level |-> 0]
  /\ rounds' = 0
  /\ pending' = "rebuild"
  /\ UNCHANGED <<hierarchyTree, nOps, applied, handlers>>

NextSave ==
  \/ UpdateAllocation
  \/ EqualDistributionRoots
  \/ EqualDistributionGroup
  \/ RebuildEffect
  \/ AutoFillEffect
  \/ AutoFillIdle
  \/ SaveAllocations
  \/ UpdateBudget

SpecSave == InitSave /\ [][NextSave]_vars

(***************************************************************************)
(* Properties                                                              *)
(***************************************************************************)
Prefixes(path) == {SubSeq(path, 1, k) : k \in 1..Len(path)}
ProperPrefixes(path) == {SubSeq(path, 1, k) : k \in 1..(Len(path) - 1)}
IsDescendant(path, ancestor) ==
  Len(path) > Len(ancestor) /\ SubSeq(path, 1, Len(ancestor)) = ancestor

RecordsAt(allocs, path) == {i \in 1..Len(allocs) : allocs[i].hierarchyPath = path}

\* the amount a record's amount is a share of: the total budget for a
\* one-segment path, else the amount of the nearest ancestor with a record
NearestAncestorAmount(path, allocs) ==
  LET withRecord == {q \in ProperPrefixes(path) : RecordsAt(allocs, q) # {}}
  IN  IF withRecord = {} THEN session.totalBudget
      ELSE LET nearest == CHOOSE q \in withRecord :
                            \A r \in withRecord : Len(r) <= Len(q)
           IN  allocs[CHOOSE i \in RecordsAt(allocs, nearest) : TRUE].amount

ShareOf(parentAmount, percentage) ==
  (parentAmount * percentage.n) \div (percentage.d * 100)

PropagationInvariant(allocs) ==
  \A i \in 1..Len(allocs) :
    allocs[i].amount =
      ShareOf(NearestAncestorAmount(allocs[i].hierarchyPath, allocs),
              allocs[i].percentage)

\* C1: after updateAllocation, equalDistribution or an auto-fill pass every
\* record has amount = floor(parentAmount * percentage / 100), whatever the
\* order in which the records were created.
C1_PropagationHolds ==
  last.op \in {"update", "equal", "autofill"} => PropagationInvariant(allocations)

\* C2: updateAllocation on a level-1 path with descendant records present
\* keeps path, level and percentage of every other record and only upserts
\* the edited path.
C2_UpdateFrame ==
  (/\ last.op = "update"
   /\ Len(last.path) = 1
   /\ \E i \in 1..Len(prevAllocations) :
        IsDescendant(prevAllocations[i].hierarchyPath, last.path))
  => /\ Len(allocations) = Len(prevAllocations)
                             + (IF RecordsAt(prevAllocations, last.path) = {}
                                THEN 1 ELSE 0)
     /\ Cardinality(RecordsAt(allocations, last.path)) = 1
     /\ \A i \in 1..Len(prevAllocations) :
          /\ allocations[i].hierarchyPath = prevAllocations[i].hierarchyPath
          /\ allocations[i].level = prevAllocations[i].level
          /\ prevAllocations[i].hierarchyPath # last.path
               => allocations[i].percentage = prevAllocations[i].percentage

\* a level-1 edit that changed the amount of a descendant record
C2_Witness ==
  /\ last.op = "update"
  /\ Len(last.path) = 1
  /\ \E i \in 1..Len(prevAllocations) :
       /\ IsDescendant(prevAllocations[i].hierarchyPath, last.path)
       /\ allocations[i].amount # prevAllocations[i].amount

\* the sibling group the last equalDistribution wrote, in iteration order
DistributedGroup ==
  IF last.op = "equal"
  THEN nodesToDistribute(hierarchyTree, last.path, last.level)
  ELSE <<>>

WrittenPercentages ==
  [i \in 1..Len(DistributedGroup) |->
     allocations[CHOOSE k \in RecordsAt(allocations, DistributedGroup[i]) : TRUE]
       .percentage]

\* C3: the percentages equalDistribution writes to a non-empty sibling
\* group sum to exactly 100.
C3_SharesSumTo100 ==
  DistributedGroup # <<>> => RSum(WrittenPercentages) = RInt(100)

Truncated2(count) == Rat((100 * 100) \div count, 100)

\* C4: every sibling but the first gets 100/n truncated to two decimals, the
\* first gets that share plus the remainder; for n = 3 the percentages are
\* 33.34, 33.33, 33.33.
C4_TruncatedShares ==
  DistributedGroup # <<>> =>
    LET n == Len(DistributedGroup)
    IN  /\ \A i \in 2..n : WrittenPercentages[i] = Truncated2(n)
        /\ WrittenPercentages[1] =
             RAdd(Truncated2(n), RSub(RInt(100), RMul(Truncated2(n), RInt(n))))
        /\ n = 3 => WrittenPercentages
                      = <<Rat(3334, 100), Rat(3333, 100), Rat(3333, 100)>>

RecordAt(allocs, path) == allocs[CHOOSE i \in RecordsAt(allocs, path) : TRUE]

\* C5: after a rebuild and the auto-fill pass it triggers, the only child of
\* a tree node, when its record was missing or at 0, has percentage 100 and
\* the amount of its parent node, also when the parent has no record.
C5_OnlyChildGetsParentAmount ==
  (last.op = "autofill" /\ pending # "rebuild") =>
    \A i \in 1..Len(hierarchyTree.nodes) :
      LET node == hierarchyTree.nodes[i]
      IN  (Len(node.children) = 1 /\ NeedsFill(prevAllocations, node.children[1]))
          => /\ RecordsAt(allocations, node.children[1]) # {}
             /\ RecordAt(allocations, node.children[1]).percentage = RInt(100)
             /\ RecordAt(allocations, node.children[1]).amount = node.amount

\* C6: the loop allocations -> rebuild -> auto-fill -> setAllocations stops:
\* the passes that change the list since the last edit number at most the
\* hierarchy depth, and once idle a further rebuild and pass change nothing.
C6_AutoFillTerminates ==
  /\ rounds <= Len(session.hierarchyDefinitions)
  /\ pending = "idle" =>
       LET t == buildHierarchyTree(skuData, allocations, session)
           again == autoFill(t, allocations, skuData, session)
       IN  ~again.hasChanges /\ again.allocs = allocations /\ t = hierarchyTree

\* the loop has run a changing pass and come to rest after an edit
C6_Witness ==
  /\ pending = "idle"
  /\ rounds = 1
  /\ nOps > 0

Unset(allocs, path) ==
  \E q \in Prefixes(path) :
    \/ RecordsAt(allocs, q) = {}
    \/ RecordAt(allocs, q).percentage.n = 0

\* C7: a SKU's export cells are blank exactly when some level of its path,
\* from level 1 to the SKU level, has no record or a record at 0.
C7_BlankIffUnset ==
  \A i \in 1..Len(skuData) :
    LET row == exportToCSV(skuData, allocations, session)[i]
        path == SkuPath(skuData[i], session.hierarchyDefinitions)
    IN  IF Unset(allocations, path)
        THEN row.percentage = <<>> /\ row.finalAmount = <<>>
             /\ row.finalQuantity = <<>>
        ELSE row.percentage # <<>> /\ row.finalAmount # <<>>
             /\ row.finalQuantity # <<>>

\* a SKU whose own record is set is blank because an ancestor level has a
\* record at 0
C7_Witness ==
  \E i \in 1..Len(skuData) :
    LET path == SkuPath(skuData[i], session.hierarchyDefinitions)
    IN  /\ RecordsAt(allocations, path) # {}
        /\ RecordAt(allocations, path).percentage.n > 0
        /\ \E q \in ProperPrefixes(path) :
             /\ RecordsAt(allocations, q) # {}
             /\ RecordAt(allocations, q).percentage.n = 0
        /\ exportToCSV(skuData, allocations, session)[i].finalAmount = <<>>

RECURSIVE PathProduct(_, _, _)
\* product of percentage/100 over the first k levels of path
PathProduct(allocs, path, k) ==
  IF k = 0 THEN RInt(1)
  ELSE RMul(PathProduct(allocs, path, k - 1),
            Rat(RecordAt(allocs, SubSeq(path, 1, k)).percentage.n,
                RecordAt(allocs, SubSeq(path, 1, k)).percentage.d * 100))

\* the list with every stored amount and quantity replaced
Restamp(allocs, a, q) ==
  [i \in 1..Len(allocs) |-> [allocs[i] EXCEPT !.amount = a, !.quantity = q]]

\* C8: with every level set, finalAmount = floor(totalBudget * product of
\* percentage/100) and finalQuantity = floor(finalAmount / unitPrice); the
\* rows do not depend on the stored amounts and quantities.
C8_ExportFromPercentages ==
  /\ \A i \in 1..Len(skuData) :
       LET row == exportToCSV(skuData, allocations, session)[i]
           path == SkuPath(skuData[i], session.hierarchyDefinitions)
           product == PathProduct(allocations, path, Len(path))
           expected == (session.totalBudget * product.n) \div product.d
       IN  ~Unset(allocations, path) =>
             /\ row.finalAmount = <<expected>>
             /\ row.finalQuantity =
                  <<IF skuData[i].unitPrice > 0
                    THEN expected \div skuData[i].unitPrice ELSE 0>>
  /\ exportToCSV(skuData, Restamp(allocations, 0, 0), session)
       = exportToCSV(skuData, allocations, session)
  /\ exportToCSV(skuData, Restamp(allocations, 1, 5), session)
       = exportToCSV(skuData, allocations, session)

\* a SKU with every level set whose stored amount is not the exported one
C8_Witness ==
  \E i \in 1..Len(skuData) :
    LET path == SkuPath(skuData[i], session.hierarchyDefinitions)
    IN  /\ ~Unset(allocations, path)
        /\ exportToCSV(skuData, allocations, session)[i].finalAmount
             # <<RecordAt(allocations, path).amount>>

\* every record agrees with the record of its immediate parent
FullyConsistent(allocs) ==
  \A i \in 1..Len(allocs) :
    LET path == allocs[i].hierarchyPath
    IN  /\ Len(path) > 1 => RecordsAt(allocs, Front(path)) # {}
        /\ allocs[i].amount =
             ShareOf(IF Len(path) = 1 THEN session.totalBudget
                     ELSE RecordAt(allocs, Front(path)).amount,
                     allocs[i].percentage)

\* C9: on a fully consistent list, for a SKU with every level set, the
\* exported finalAmount and finalQuantity are the amount and quantity stored
\* on the SKU-level record.
C9_ExportMatchesStored ==
  FullyConsistent(allocations) =>
    \A i \in 1..Len(skuData) :
      LET row == exportToCSV(skuData, allocations, session)[i]
          path == SkuPath(skuData[i], session.hierarchyDefinitions)
      IN  ~Unset(allocations, path) =>
            /\ row.finalAmount = <<RecordAt(allocations, path).amount>>
            /\ row.finalQuantity = <<RecordAt(allocations, path).quantity>>

StoredAmount(path) == RecordAt(allocations, path).amount

RoundTripRow(i) == exportToCSV(skuData, allocations, session)[i]

EditedPaths == {e.path : e \in applied}

\* C10: in the round-trip scenario, once A = 100, A/X = 40 and A/Y = 60 are
\* set the stored amounts are 10000, 4000 and 6000; once the two SKU-level
\* paths are set to 100 as well the export shows 40.0000 and 60.0000, amounts
\* 4000 and 6000, quantities 40 and 30, in whatever order the edits are made.
C10_RoundTrip ==
  /\ {<<"A">>, <<"A", "X">>, <<"A", "Y">>} \subseteq EditedPaths
       => /\ StoredAmount(<<"A">>) = 10000
          /\ StoredAmount(<<"A", "X">>) = 4000
          /\ StoredAmount(<<"A", "Y">>) = 6000
  /\ applied = RoundTripEdits
       => /\ RoundTripRow(1).percentage = <<400000>>
          /\ RoundTripRow(1).finalAmount = <<4000>>
          /\ RoundTripRow(1).finalQuantity = <<40>>
          /\ RoundTripRow(2).percentage = <<600000>>
          /\ RoundTripRow(2).finalAmount = <<6000>>
          /\ RoundTripRow(2).finalQuantity = <<30>>

\* all five edits made, the record of A created after those of its descendants
C10_Witness ==
  /\ applied = RoundTripEdits
  /\ pending = "idle"
  /\ allocations[Len(allocations)].hierarchyPath = <<"A">>

IntermediatePaths == {<<"A">>, <<"A", "X">>, <<"A", "Y">>}
SkuLevelPaths == {<<"A", "X", "S1">>, <<"A", "Y", "S2">>}

BlankCells(row) ==
  row.percentage = <<>> /\ row.finalAmount = <<>> /\ row.finalQuantity = <<>>

\* C11 (as stated): in the round-trip scenario, once A, A/X and A/Y are set
\* and as long as the user has set no SKU-level percentage, A/X/S1 and A/Y/S2
\* have no non-zero percentage and their export cells are blank.
C11_SkuLevelStaysUnset ==
  (IntermediatePaths \subseteq EditedPaths /\ EditedPaths \cap SkuLevelPaths = {})
  => /\ \A p \in SkuLevelPaths :
          RecordsAt(allocations, p) = {}
            \/ RecordAt(allocations, p).percentage.n = 0
     /\ BlankCells(RoundTripRow(1))
     /\ BlankCells(RoundTripRow(2))

\* C11 (amended): in the round-trip scenario, once A, A/X and A/Y are set,
\* A/X/S1 and A/Y/S2 hold 100% from the single-child auto-fill pass although
\* the user has set no SKU-level percentage, and their export cells show
\* 40.0000 / 4000 / 40 and 60.0000 / 6000 / 30.
C11_SkuLevelAutoFilled ==
  (IntermediatePaths \subseteq EditedPaths /\ EditedPaths \cap SkuLevelPaths = {})
  => /\ \A p \in SkuLevelPaths :
          /\ Cardinality(RecordsAt(allocations, p)) = 1
          /\ RecordAt(allocations, p).percentage = RInt(100)
     /\ RoundTripRow(1).percentage = <<400000>>
     /\ RoundTripRow(1).finalAmount = <<4000>>
     /\ RoundTripRow(1).finalQuantity = <<40>>
     /\ RoundTripRow(2).percentage = <<600000>>
     /\ RoundTripRow(2).finalAmount = <<6000>>
     /\ RoundTripRow(2).finalQuantity = <<30>>

\* the three intermediate paths are set, no SKU-level edit was made, and the
\* effects have come to rest
C11_Witness ==
  /\ EditedPaths = IntermediatePaths
  /\ pending = "idle"
  /\ last.op = "update"

NoDuplicatePaths(allocs) ==
  \A i, j \in 1..Len(allocs) :
    allocs[i].hierarchyPath = allocs[j].hierarchyPath => i = j

\* the paths the last operation may have written
WrittenPaths ==
  IF last.op = "update" THEN {last.path}
  ELSE IF last.op = "equal"
  THEN {DistributedGroup[k] : k \in 1..Len(DistributedGroup)}
  ELSE {p \in TreePaths(hierarchyTree) : NeedsFill(prevAllocations, p)}

\* C12: the list never holds two records of one hierarchyPath: an edit of an
\* existing path keeps the record at its index, an edit of a new path appends
\* exactly one record of that path, and no other record is added or removed.
C12_OneRecordPerPath ==
  /\ NoDuplicatePaths(allocations)
  /\ last.op # "load" =>
       /\ Len(allocations) >= Len(prevAllocations)
       /\ \A i \in 1..Len(prevAllocations) :
            allocations[i].hierarchyPath = prevAllocations[i].hierarchyPath
       /\ \A i \in (Len(prevAllocations) + 1)..Len(allocations) :
            /\ allocations[i].hierarchyPath \in WrittenPaths
            /\ RecordsAt(prevAllocations, allocations[i].hierarchyPath) = {}
       /\ last.op \in {"update", "equal"} =>
            \A p \in WrittenPaths : Cardinality(RecordsAt(allocations, p)) = 1

\* an edit replaced the record of an existing path in place, in a list that
\* holds other records as well
C12_Witness ==
  /\ last.op = "update"
  /\ RecordsAt(prevAllocations, last.path) # {}
  /\ Len(allocations) = Len(prevAllocations)
  /\ Len(allocations) > 1
  /\ RecordAt(allocations, last.path).percentage
       # RecordAt(prevAllocations, last.path).percentage

IsPrefix(p, q) == Len(p) <= Len(q) /\ SubSeq(q, 1, Len(p)) = p

RECURSIVE UnitPriceUnder(_, _, _)
\* sum of unitPrice over the SKUs whose SKU-level path is path or lies below it
UnitPriceUnder(path, skus, defs) ==
  IF skus = <<>> THEN 0
  ELSE (IF IsPrefix(path, SkuPath(Head(skus), defs))
        THEN Head(skus).unitPrice ELSE 0)
       + UnitPriceUnder(path, Tail(skus), defs)

\* C13: every record has quantity = floor(amount / U), U the sum of unitPrice
\* over the SKUs under the record's path (the SKU itself for a SKU-level
\* path), and quantity = 0 when U = 0, also when SKUs lack hierarchy values.
C13_QuantityFromUnitPrices ==
  \A i \in 1..Len(allocations) :
    LET U == UnitPriceUnder(allocations[i].hierarchyPath, skuData,
                            session.hierarchyDefinitions)
    IN  allocations[i].quantity =
          IF U > 0 THEN allocations[i].amount \div U ELSE 0

RECURSIVE Count(_, _)
\* number of occurrences of x in the sequence s
Count(s, x) ==
  IF s = <<>> THEN 0 ELSE (IF Head(s) = x THEN 1 ELSE 0) + Count(Tail(s), x)

FirstColumnValues ==
  {skuData[k].hierarchyValues[session.hierarchyDefinitions[1].columnName] :
     k \in 1..Len(skuData)} \ {""}

\* the tree shown is the one built from the current session, SKUs and list
TreeIsCurrent == pending # "rebuild"

\* C14: the root list of the built tree holds exactly one node per distinct
\* non-empty value of the first hierarchy column among the SKUs, and no
\* other node.
C14_RootsAreFirstColumnValues ==
  TreeIsCurrent =>
    /\ {hierarchyTree.roots[k] : k \in 1..Len(hierarchyTree.roots)}
         = {<<v>> : v \in FirstColumnValues}
    /\ Len(hierarchyTree.roots) = Cardinality(FirstColumnValues)

RECURSIVE TreeWalk(_, _)
\* the paths of the returned tree, roots first, each node before its children
TreeWalk(t, nodeList) ==
  IF nodeList = <<>> THEN <<>>
  ELSE <<Head(nodeList)>>
         \o TreeWalk(t, NodeAt(t.nodes, Head(nodeList)).children)
         \o TreeWalk(t, Tail(nodeList))

\* the values of sku for the first depth columns are all present
CompleteThrough(sku, defs, depth) ==
  \A i \in 1..depth : sku.hierarchyValues[defs[i].columnName] # ""

\* the list a node of that path has to be a member of
SiblingList(t, path) ==
  IF Len(path) = 1 THEN t.roots
  ELSE IF HasNode(t.nodes, Front(path))
  THEN NodeAt(t.nodes, Front(path)).children
  ELSE <<>>

\* C15: in the built tree no two nodes have the same path; the SKUs that
\* agree on the values through depth D share one node of depth D, which is
\* once in the children of the node at its path minus the last segment (once
\* in the root list when D = 1) and carries the percentage, amount and
\* quantity of the record of its path, or 0 when there is none.
C15_SharedNodes ==
  TreeIsCurrent =>
    LET t == hierarchyTree
        defs == session.hierarchyDefinitions
        walk == TreeWalk(t, t.roots)
    IN  /\ \A i, j \in 1..Len(walk) : walk[i] = walk[j] => i = j
        /\ \A k \in 1..Len(skuData) : \A depth \in 1..Len(defs) :
             CompleteThrough(skuData[k], defs, depth) =>
               LET path == buildHierarchyPath(skuData[k], defs, depth)
               IN  /\ Count(walk, path) = 1
                   /\ Count(SiblingList(t, path), path) = 1
                   /\ HasNode(t.nodes, path)
                   /\ NodeAt(t.nodes, path).level = depth
                   /\ IF RecordsAt(allocations, path) = {}
                      THEN /\ NodeAt(t.nodes, path).percentage = RInt(0)
                           /\ NodeAt(t.nodes, path).amount = 0
                           /\ NodeAt(t.nodes, path).quantity = 0
                      ELSE /\ NodeAt(t.nodes, path).percentage
                                = RecordAt(allocations, path).percentage
                           /\ NodeAt(t.nodes, path).amount
                                = RecordAt(allocations, path).amount
                           /\ NodeAt(t.nodes, path).quantity
                                = RecordAt(allocations, path).quantity

\* C16: when the value of a SKU for the column of level k is empty, its path
\* for every depth >= k is its path for depth k-1, whatever the later columns
\* hold.
C16_PathTruncatedAtMissingValue ==
  TreeIsCurrent =>
    LET defs == session.hierarchyDefinitions
    IN  \A i \in 1..Len(skuData) : \A k \in 1..Len(defs) :
          skuData[i].hierarchyValues[defs[k].columnName] = "" =>
            \A depth \in k..(Len(defs) + 1) :
              buildHierarchyPath(skuData[i], defs, depth)
                = buildHierarchyPath(skuData[i], defs, k - 1)

Rows(table) == {table[i] : i \in 1..Len(table)}

\* the period all records of the body carry, as stored
BodyPeriods(body) == {StoredPeriod(body[i]) : i \in 1..Len(body)}

\* C17: a successful PUT /allocations whose records all carry period P leaves
\* every stored row of another period (the NULL period included) unchanged.
C17_OtherPeriodsKept ==
  (/\ http.method = "PUT"
   /\ http.status = 200
   /\ Cardinality(BodyPeriods(http.body)) = 1)
  => \A row \in Rows(http.before.allocation) :
       row.period \notin BodyPeriods(http.body)
         => Count(db.allocation, row) = Count(http.before.allocation, row)

\* C18: after a PUT /allocations, whatever its outcome, the stored rows are
\* either exactly the rows stored before or exactly the submitted rows.
C18_SaveAllOrNothing ==
  http.method = "PUT" =>
    \/ db.allocation = http.before.allocation
    \/ Rows(db.allocation) = Rows(allocationRecords(http.body))

\* C19: after a POST /import, whatever its outcome, the session holds either
\* the previous definitions, SKUs and allocations, or the new definitions and
\* SKUs with no allocations.
C19_ImportAllOrNothing ==
  http.method = "POST" =>
    \/ db = http.before
    \/ /\ db.hierarchyDefinition = ImportDefinitions(http.body.hierarchyColumns)
       /\ db.skuData = http.body.skuData
       /\ db.allocation = <<>>

\* C20: every list saveAllocations sends has, for each record,
\* amount = floor(parentAmount * percentage / 100) with respect to the total
\* budget of the session at the time of the save, whatever loads, edits,
\* equal distributions, auto-fill passes and budget updates came before.
C20_SavedListConsistent ==
  last.op = "save" => PropagationInvariant(allocationRecords(http.body))

NodePaths(t) == {t.nodes[i].path : i \in 1..Len(t.nodes)}

\* C21: getParentAmount(path, list) is the total budget for a one-segment
\* path, else the amount of the record of the longest proper prefix of path
\* that has a record in the list, and the total budget when no proper prefix
\* has one; the call makes at most as many activations as path has segments.
C21_NearestAncestorAmount ==
  \A path \in NodePaths(hierarchyTree) :
    /\ getParentAmount(path, allocations, session)
         = NearestAncestorAmount(path, allocations)
    /\ Len(path) = 1 => getParentAmount(path, allocations, session)
                          = session.totalBudget
    /\ getParentAmountCalls(path, allocations) <= Len(path)

\* a three-segment path whose parent has no record while its grandparent has
\* one with an amount other than the total budget
C21_Witness ==
  \E path \in NodePaths(hierarchyTree) :
    /\ Len(path) = 3
    /\ RecordsAt(allocations, Front(path)) = {}
    /\ RecordsAt(allocations, Front(Front(path))) # {}
    /\ getParentAmount(path, allocations, session) # session.totalBudget
    /\ getParentAmountCalls(path, allocations) = 2

\* C22: when the PUT /allocations requests of two clients have both
\* completed with success, however their deleteMany and createMany steps
\* interleaved, the stored rows are exactly the list of one of the two
\* requests, never a union or mixture.
C22_LastWriteWins ==
  (\A c \in Clients : /\ handlers[c].route = "PUT"
                       /\ handlers[c].pc = "done"
                       /\ handlers[c].status = 200)
  => \E c \in Clients : db.allocation = allocationRecords(handlers[c].body)

NoDuplicateKeys(table) ==
  \A i, j \in 1..Len(table) :
    AllocationKey(table[i]) = AllocationKey(table[j]) => i = j

C24_CreatedPeriodExists ==
  \A c \in Clients :
    (/\ handlers[c].route = "POST"
     /\ handlers[c].pc = "done"
     /\ handlers[c].status = 200)
    => /\ \E k \in 1..Len(GetPeriods(db.allocation)) :
            GetPeriods(db.allocation)[k] = NewPeriod(handlers[c].body)
       /\ PeriodExists(db.allocation, NewPeriod(handlers[c].body))

\* the node of that path is the only child of its parent node
SoleChild(t, path) ==
  /\ Len(path) > 1
  /\ HasNode(t.nodes, Front(path))
  /\ NodeAt(t.nodes, Front(path)).children = <<path>>

RECURSIVE SumAmounts(_, _)
\* sum of the amounts of the records of the listed paths
SumAmounts(allocs, paths) ==
  IF paths = <<>> THEN 0
  ELSE RecordAt(allocs, Head(paths)).amount + SumAmounts(allocs, Tail(paths))

\* C26: after equalDistribution over the children of a parent whose record
\* has amount P (over the roots: P the total budget), the amounts stored on
\* the distributed siblings sum to at most P.
C26_DistributedAmountsWithinParent ==
  DistributedGroup # <<>> =>
    IF last.path = <<>>
    THEN SumAmounts(allocations, DistributedGroup) <= session.totalBudget
    ELSE RecordsAt(allocations, last.path) # {} =>
           SumAmounts(allocations, DistributedGroup)
             <= RecordAt(allocations, last.path).amount

\* C27: starting from the empty list, with every entered percentage within
\* [0, 100], after any sequence of updateAllocation, equalDistribution and
\* auto-fill passes every record has 0 <= amount <= total budget and
\* quantity >= 0, and passes allocationSchema.
C27_AmountsWithinBudget ==
  \A i \in 1..Len(allocations) :
    /\ allocations[i].amount >= 0
    /\ allocations[i].amount <= session.totalBudget
    /\ allocations[i].quantity >= 0
    /\ ValidAllocation(allocationsToSave(allocations)[i])

\* an equal distribution has left a record with the whole budget next to
\* records that hold a share of it
C27_Witness ==
  /\ last.op = "equal"
  /\ \E i, j \in 1..Len(allocations) :
       /\ allocations[i].amount = session.totalBudget
       /\ allocations[j].amount > 0
       /\ allocations[j].amount < session.totalBudget
       /\ allocations[j].quantity > 0

\* the percentage stored for a path, 0 when it has no record
StoredPercentage(allocs, path) ==
  IF RecordsAt(allocs, path) = {} THEN RInt(0)
  ELSE RecordAt(allocs, path).percentage

RECURSIVE SumPercentages(_, _)
SumPercentages(allocs, paths) ==
  IF paths = <<>> THEN RInt(0)
  ELSE RAdd(StoredPercentage(allocs, Head(paths)),
            SumPercentages(allocs, Tail(paths)))

AtMostHundred(x) == x.n <= 100 * x.d

\* in every sibling group of the tree, the roots and the children of each
\* node, the stored percentages are within [0, 100] and sum to at most 100
GroupsWithinHundred(t, allocs) ==
  /\ \A i \in 1..Len(allocs) :
       allocs[i].percentage.n >= 0 /\ AtMostHundred(allocs[i].percentage)
  /\ AtMostHundred(SumPercentages(allocs, t.roots))
  /\ \A i \in 1..Len(t.nodes) :
       AtMostHundred(SumPercentages(allocs, t.nodes[i].children))

RECURSIVE SumFinalAmounts(_)
\* sum of the finalAmount cells, a blank cell counted as 0
SumFinalAmounts(rows) ==
  IF rows = <<>> THEN 0
  ELSE (IF Head(rows).finalAmount = <<>> THEN 0 ELSE Head(rows).finalAmount[1])
       + SumFinalAmounts(Tail(rows))

\* C28: when in every sibling group the stored percentages are within
\* [0, 100] and sum to at most 100, the finalAmount values of the export sum
\* to at most the total budget.
C28_ExportWithinBudget ==
  (TreeIsCurrent /\ GroupsWithinHundred(hierarchyTree, allocations))
  => SumFinalAmounts(exportToCSV(skuData, allocations, session))
       <= session.totalBudget

\* the groups are within 100, the two roots and the two SKUs under A/X share
\* their parents, and every SKU has an amount in the export
C28_Witness ==
  /\ pending = "idle"
  /\ GroupsWithinHundred(hierarchyTree, allocations)
  /\ StoredPercentage(allocations, <<"A">>) = RInt(50)
  /\ StoredPercentage(allocations, <<"B">>) = RInt(50)
  /\ \A i \in 1..Len(skuData) :
       exportToCSV(skuData, allocations, session)[i].finalAmount # <<>>
  /\ SumFinalAmounts(exportToCSV(skuData, allocations, session)) > 0
  /\ SumFinalAmounts(exportToCSV(skuData, allocations, session))
       < session.totalBudget

\* C29: an edit made on the spreadsheet page leaves the list that
\* updateAllocation of the session page gives for the same list, path and
\* percentage, also when the parent of the path has no record and when
\* descendants of the path have records.
C29_SameEditOnBothPages ==
  last.op = "sheet" =>
    allocations = updateAllocation(last.path,
                                   RecordAt(allocations, last.path).percentage,
                                   prevAllocations, skuData, session)


\* C30: a PUT /allocations whose body fails validation (a percentage outside
\* [0, 100], a negative or non-integer amount or quantity, a non-positive
\* level) is answered 400 unless it is already refused with 401 or 404, and a
\* request answered 400, 401 or 404 leaves the stored allocations as they were
Below(x, k) == x.n < k * x.d
Above(x, k) == x.n > k * x.d
Fractional(x) == x.n % x.d # 0

FailsValidation(body) ==
  \E i \in 1..Len(body) :
    \/ Below(body[i].percentage, 0)
    \/ Above(body[i].percentage, 100)
    \/ Below(body[i].amount, 0)
    \/ Fractional(body[i].amount)
    \/ Below(body[i].quantity, 0)
    \/ Fractional(body[i].quantity)
    \/ ~Above(body[i].level, 0)

====
